---- MODULE Spec2Model ----
(***************************************************************************)
(* Model of pkg/repository: the generic entityRepository over the          *)
(* sample_entities table (SampleEntity{Id `db:"id,autoincrement"`,         *)
(* Name `db:"name"`}) and the SQL backend it talks to.                     *)
(*                                                                         *)
(* A statement is modelled as the text the handler builds, reduced to the  *)
(* parts that decide its meaning: its kind, its column list, the number of *)
(* placeholders it contains and the positional arguments bound to them.    *)
(* The backend evaluates a statement against the table, which is kept in   *)
(* storage (primary key) order.                                            *)
(***************************************************************************)
EXTENDS Integers, Sequences, FiniteSets, TLC

\* ---------------------------------------------------------------- bounds
MaxId == 3
MaxLen == 2
MaxLimit == 2

Names == {"test", "test2"}
EntRefs == {"e1", "e2"}
Callers == {"c1", "c2"}

VARIABLES table, autoInc, heap, last, calls

vars == <<table, autoInc, heap, last, calls>>

\* ------------------------------------------------------------- utilities
Range(s) == {s[i] : i \in 1..Len(s)}

Min(a, b) == IF a < b THEN a ELSE b

Max(a, b) == IF a < b THEN b ELSE a

SeqsUpTo(S, n) == UNION {[1..k -> S] : k \in 0..n}

RECURSIVE KeepRows(_, _, _)
\* the rows of tbl, in order, whose id is (keep = TRUE) or is not in S
KeepRows(tbl, S, keep) ==
    IF tbl = <<>> THEN <<>>
    ELSE LET r == Head(tbl)
             rest == KeepRows(Tail(tbl), S, keep)
         IN IF (r.id \in S) = keep THEN <<r>> \o rest ELSE rest

\* ------------------------------------------------------------ error values
NoError == ""
NotFound == "entity not found"
SyntaxError == "Error 1064: You have an error in your SQL syntax"
DuplicateKey == "Error 1062: Duplicate entry"

\* --------------------------------------------------------- entity metadata
\* struct fields of SampleEntity with their db tags, split on ","
SampleEntityFields ==
    << [name |-> "Id", tag |-> <<"id", "autoincrement">>],
       [name |-> "Name", tag |-> <<"name">>] >>

RECURSIVE ScanFields(_, _, _)
\* SaveAll's loop over the first entity's fields: the column list, whether
\* the id column is auto-generated, and the struct field holding the id
ScanFields(fields, i, acc) ==
    IF i > Len(fields) THEN acc
    ELSE LET tagParts == fields[i].tag
             columnName == tagParts[1]
             isId == columnName = "id"
             auto == Len(tagParts) > 1 /\ "autoincrement" \in Range(tagParts)
             acc1 == IF isId
                     THEN [acc EXCEPT !.idAutoIncrement = auto,
                                      !.idField = fields[i].name]
                     ELSE acc
         IN IF isId /\ auto
            THEN ScanFields(fields, i + 1, acc1)
            ELSE ScanFields(fields, i + 1,
                     [acc1 EXCEPT !.columns = Append(@, columnName),
                                  !.placeholders = Append(@, "?")])

Shape(fields) ==
    ScanFields(fields, 1, [columns |-> <<>>, placeholders |-> <<>>,
                           idAutoIncrement |-> FALSE, idField |-> ""])

RECURSIVE EntityValues(_, _, _, _)
\* the values one entity contributes to the INSERT, in field order
EntityValues(fields, i, entityValue, idAutoIncrement) ==
    IF i > Len(fields) THEN <<>>
    ELSE LET columnName == fields[i].tag[1]
             rest == EntityValues(fields, i + 1, entityValue, idAutoIncrement)
         IN IF columnName = "id" /\ idAutoIncrement
            THEN rest
            ELSE <<entityValue[fields[i].name]>> \o rest

RECURSIVE Repeat(_, _)
Repeat(s, n) == IF n = 0 THEN <<>> ELSE s \o Repeat(s, n - 1)

\* variant: the outer entityValue (the first entity) read for every row
ValuesOfFirstEntity(fields, entities, hp, idAutoIncrement) ==
    IF entities = <<>> THEN <<>>
    ELSE Repeat(EntityValues(fields, 1, hp[entities[1]], idAutoIncrement),
                Len(entities))

RECURSIVE Values(_, _, _, _)
\* the positional arguments of the multi-row INSERT
Values(fields, entities, hp, idAutoIncrement) ==
    IF entities = <<>> THEN <<>>
    ELSE EntityValues(fields, 1, hp[Head(entities)], idAutoIncrement)
         \o Values(fields, Tail(entities), hp, idAutoIncrement)

\* ------------------------------------------------------------- statements
Stmt(kind, columns, groups, ph, args) ==
    [kind |-> kind, columns |-> columns, groups |-> groups,
     ph |-> ph, args |-> args]

\* an IN clause with no placeholder, "... WHERE id IN ()"
EmptyIn(stmt) == stmt.kind \in {"SELECT_IN", "DELETE_IN"} /\ stmt.ph = 0

\* ---------------------------------------------------------------- backend
Malformed(stmt) == EmptyIn(stmt) \/ stmt.ph # Len(stmt.args)

ColumnIndex(columns, c) ==
    IF c \in Range(columns)
    THEN CHOOSE k \in 1..Len(columns) : columns[k] = c
    ELSE 0

RECURSIVE PutRow(_, _)
\* a row stored at its place in primary key order
PutRow(tbl, r) ==
    IF tbl = <<>> THEN <<r>>
    ELSE IF r.id < Head(tbl).id THEN <<r>> \o tbl
    ELSE <<Head(tbl)>> \o PutRow(Tail(tbl), r)

RECURSIVE InsertRows(_, _, _)
\* the rows of a multi-row INSERT, one group of values at a time
InsertRows(stmt, g, acc) ==
    IF g > stmt.groups \/ acc.err # NoError THEN acc
    ELSE LET n == Len(stmt.columns)
             base == (g - 1) * n
             ic == ColumnIndex(stmt.columns, "id")
             nc == ColumnIndex(stmt.columns, "name")
             given == IF ic = 0 THEN 0 ELSE stmt.args[base + ic]
             id == IF given = 0 THEN acc.autoInc ELSE given
             row == [id |-> id, name |-> stmt.args[base + nc]]
             generated == given = 0
         IN IF \E k \in 1..Len(acc.table) : acc.table[k].id = id
            THEN [acc EXCEPT !.err = DuplicateKey]
            ELSE InsertRows(stmt, g + 1,
                   [acc EXCEPT !.table = PutRow(@, row),
                               !.autoInc = Max(@, id + 1),
                               !.lastInsertId =
                                   IF generated /\ acc.lastInsertId = 0
                                   THEN id ELSE @,
                               !.inserted = Append(@, id)])

\* r.DB.Exec: the outcome of a data-changing statement on the current table
DBExec(stmt) ==
    LET same == [err |-> NoError, table |-> table, autoInc |-> autoInc,
                 lastInsertId |-> 0, inserted |-> <<>>]
    IN IF Malformed(stmt) THEN [same EXCEPT !.err = SyntaxError]
       ELSE IF stmt.kind = "DELETE_ALL" THEN [same EXCEPT !.table = <<>>]
       ELSE IF stmt.kind = "DELETE_IN"
            THEN [same EXCEPT !.table = KeepRows(table, Range(stmt.args), FALSE)]
       ELSE LET done == InsertRows(stmt, 1, same)
            IN IF done.err # NoError THEN [same EXCEPT !.err = done.err]
               ELSE done

\* r.DB.Select / r.DB.Get: the outcome of a query on the current table
DBSelect(stmt) ==
    IF Malformed(stmt) THEN [err |-> SyntaxError, rows |-> <<>>, count |-> 0]
    ELSE IF stmt.kind = "SELECT_ALL"
         THEN [err |-> NoError, rows |-> table, count |-> 0]
    ELSE IF stmt.kind = "SELECT_IN"
         THEN [err |-> NoError, count |-> 0,
               rows |-> KeepRows(table, Range(stmt.args), TRUE)]
    ELSE IF stmt.kind = "SELECT_LIMIT"
         THEN LET limit == stmt.args[1]
                  offset == stmt.args[2]
              IN [err |-> NoError, count |-> 0,
                  rows |-> SubSeq(table, offset + 1,
                                  Min(offset + limit, Len(table)))]
    ELSE [err |-> NoError, rows |-> <<>>, count |-> Len(table)]

\* variant: the first id worked out from the table's counter when the id is
\* read back, as if no other statement had run since this one
LastInsertIdOfSession(result) == autoInc - Len(result.inserted)

\* sql.Result.LastInsertId: the id the statement's own result carries
LastInsertId(result) == result.lastInsertId

\* --------------------------------------------------------------- handlers
NoPagination == [Limit |-> 0, Offset |-> 0]

\* what a handler returns and leaves behind; the default is "nothing changed"
Outcome ==
    [err |-> NoError, rows |-> <<>>, total |-> 0, outPag |-> NoPagination,
     firstId |-> 0, table |-> table, autoInc |-> autoInc, heap |-> heap,
     stmts |-> <<>>]

FindAll ==
    LET stmt == Stmt("SELECT_ALL", <<>>, 0, 0, <<>>)
        res == DBSelect(stmt)
    IN [Outcome EXCEPT !.err = res.err, !.rows = res.rows, !.stmts = <<stmt>>]

\* variant: the last of several ids left out of the IN list
InStmtDropLast(kind, ids) ==
    LET n == IF Len(ids) > 1 THEN Len(ids) - 1 ELSE Len(ids)
    IN Stmt(kind, <<>>, 0, n, [i \in 1..n |-> ids[i]])

\* "<kind> ... WHERE id IN (?,...,?)" with one placeholder and one argument
\* per element of ids
InStmt(kind, ids) ==
    LET idStrings == [i \in 1..Len(ids) |-> "?"]
        args == [i \in 1..Len(ids) |-> ids[i]]
    IN Stmt(kind, <<>>, 0, Len(idStrings), args)

FindAllByID(ids) ==
    LET stmt == InStmt("SELECT_IN", ids)
        res == DBSelect(stmt)
    IN [Outcome EXCEPT !.err = res.err, !.rows = res.rows, !.stmts = <<stmt>>]

\* variant: no "entity not found" for an empty result
FindByIDNoCheck(id) ==
    LET r == FindAllByID(<<id>>)
    IN IF r.rows = <<>> THEN r ELSE [r EXCEPT !.rows = <<r.rows[1]>>]

FindByID(id) ==
    LET r == FindAllByID(<<id>>)
    IN IF r.err # NoError THEN r
       ELSE IF Len(r.rows) = 0 THEN [r EXCEPT !.err = NotFound]
       ELSE [r EXCEPT !.rows = <<r.rows[1]>>]

ExistsByID(id) ==
    LET r == FindAllByID(<<id>>)
    IN IF r.err # NoError THEN r
       ELSE IF Len(r.rows) = 0 THEN [r EXCEPT !.err = NotFound]
       ELSE [r EXCEPT !.rows = <<>>]

\* the multi-row INSERT SaveAll builds for a non-empty list of entities
SaveAllStmt(entities) ==
    LET shape == Shape(SampleEntityFields)
        values == Values(SampleEntityFields, entities, heap,
                         shape.idAutoIncrement)
    IN Stmt("INSERT", shape.columns, Len(entities),
            Len(entities) * Len(shape.placeholders), values)

RECURSIVE BackfillSameId(_, _, _, _, _)
\* variant: every entity given lastInsertID itself
BackfillSameId(hp, entities, idField, lastInsertID, i) ==
    IF i > Len(entities) THEN hp
    ELSE BackfillSameId([hp EXCEPT ![entities[i]][idField] = lastInsertID],
                        entities, idField, lastInsertID, i + 1)

RECURSIVE BackfillOffByOne(_, _, _, _, _)
\* variant: the offset counted from 1
BackfillOffByOne(hp, entities, idField, lastInsertID, i) ==
    IF i > Len(entities) THEN hp
    ELSE BackfillOffByOne([hp EXCEPT ![entities[i]][idField] = lastInsertID + i],
                          entities, idField, lastInsertID, i + 1)

RECURSIVE Backfill(_, _, _, _, _)
\* the loop setting entity i's id field to lastInsertID + i (i 0-based; the
\* sequence index here is 1-based)
Backfill(hp, entities, idField, lastInsertID, i) ==
    IF i > Len(entities) THEN hp
    ELSE Backfill([hp EXCEPT ![entities[i]][idField] = lastInsertID + (i - 1)],
                  entities, idField, lastInsertID, i + 1)

\* SaveAll after a successful Exec: the entities with their ids set
SetAutoIncrementIDs(entities, result) ==
    LET shape == Shape(SampleEntityFields)
    IN IF shape.idAutoIncrement
       THEN Backfill(heap, entities, shape.idField, LastInsertId(result), 1)
       ELSE heap

SaveAll(entities) ==
    IF Len(entities) = 0 THEN Outcome
    ELSE LET stmt == SaveAllStmt(entities)
             result == DBExec(stmt)
         IN IF result.err # NoError
            THEN [Outcome EXCEPT !.err = result.err, !.stmts = <<stmt>>]
            ELSE [Outcome EXCEPT
                    !.table = result.table,
                    !.autoInc = result.autoInc,
                    !.stmts = <<stmt>>,
                    !.firstId = result.lastInsertId,
                    !.heap = SetAutoIncrementIDs(entities, result)]

Save(entity) == SaveAll(<<entity>>)

\* variant: only the first id bound
DeleteByIDsFirstOnly(ids) ==
    LET stmt == InStmt("DELETE_IN", IF ids = <<>> THEN ids ELSE <<ids[1]>>)
        result == DBExec(stmt)
    IN [Outcome EXCEPT !.err = result.err, !.table = result.table,
                       !.stmts = <<stmt>>]

DeleteByIDs(ids) ==
    LET stmt == InStmt("DELETE_IN", ids)
        result == DBExec(stmt)
    IN [Outcome EXCEPT !.err = result.err, !.table = result.table,
                       !.stmts = <<stmt>>]

DeleteByID(id) == DeleteByIDs(<<id>>)

DeleteAll ==
    LET stmt == Stmt("DELETE_ALL", <<>>, 0, 0, <<>>)
        result == DBExec(stmt)
    IN [Outcome EXCEPT !.err = result.err, !.table = result.table,
                       !.stmts = <<stmt>>]

GetID(entity) == heap[entity].Id

DeleteEntities(entities) ==
    DeleteByIDs([i \in 1..Len(entities) |-> GetID(entities[i])])

DeleteEntity(entity) == DeleteEntities(<<entity>>)

\* variant: offset and limit bound in the wrong order
PageStmtSwapped(pagination) ==
    Stmt("SELECT_LIMIT", <<>>, 0, 2, <<pagination.Offset, pagination.Limit>>)

PageStmt(pagination) ==
    Stmt("SELECT_LIMIT", <<>>, 0, 2, <<pagination.Limit, pagination.Offset>>)

CountStmt == Stmt("COUNT", <<>>, 0, 0, <<>>)

FindAllPaginated(pagination) ==
    LET page == DBSelect(PageStmt(pagination))
        cnt == DBSelect(CountStmt)
    IN IF page.err # NoError
       THEN [Outcome EXCEPT !.err = page.err, !.stmts = <<PageStmt(pagination)>>]
       ELSE IF cnt.err # NoError
       THEN [Outcome EXCEPT !.err = cnt.err,
                            !.stmts = <<PageStmt(pagination), CountStmt>>]
       ELSE [Outcome EXCEPT !.outPag = pagination, !.total = cnt.count,
                            !.rows = page.rows,
                            !.stmts = <<PageStmt(pagination), CountStmt>>]

\* test helper: one single-row INSERT issued directly on the connection
InsertRecordsToSampleEntity(name) ==
    LET stmt == Stmt("INSERT", <<"name">>, 1, 1, <<name>>)
        result == DBExec(stmt)
    IN [Outcome EXCEPT !.err = result.err, !.table = result.table,
                       !.autoInc = result.autoInc, !.stmts = <<stmt>>,
                       !.firstId = result.lastInsertId]

\* ------------------------------------------------------------ input sets
IdLists == SeqsUpTo(0..MaxId, MaxLen)

EntityLists == SeqsUpTo(EntRefs, MaxLen)

Paginations == [Limit : 0..MaxLimit, Offset : 0..MaxLimit]

NoUndo == [on |-> FALSE, table |-> <<>>]

ConcRefs == {"e1", "e2", "e3"}

\* the entity instances each concurrent caller owns
Owned(c) == IF c = "c1" THEN {"e1", "e2"} ELSE {"e3"}

\* the callers that page through the table while the others write
Readers == {"c1"}

IdleCall ==
    [pc |-> "idle", entities |-> <<>>,
     result |-> [lastInsertId |-> 0, inserted |-> <<>>],
     saved |-> FALSE, raced |-> FALSE,
     pagination |-> NoPagination, page |-> <<>>, returned |-> FALSE,
     out |-> [Pagination |-> NoPagination, TotalCount |-> 0,
              Results |-> <<>>]]

\* the entities the tests construct: SampleEntity{Name: "test"} and
\* SampleEntity{Name: "test2"}, their Id left at the zero value
NewSampleEntity(e) ==
    [Id |-> 0, Name |-> IF e = "e2" THEN "test2" ELSE "test"]

\* ----------------------------------------------------------------- state
\* table    the rows of sample_entities, in storage order
\* autoInc  the table's AUTO_INCREMENT counter
\* heap     the callers' SampleEntity instances, by reference
\* last     the last call a single caller made: its arguments, what it
\*          returned, the statements it issued and the state before it
\* calls    the position of each concurrent caller inside its handler
Init ==
    /\ table = <<>>
    /\ autoInc = 1
    /\ heap = [e \in EntRefs |-> NewSampleEntity(e)]
    /\ last = [op |-> "NewEntityRepository", ids |-> <<>>, entities |-> <<>>,
               pagination |-> NoPagination, name |-> "", err |-> NoError,
               rows |-> <<>>, total |-> 0, outPag |-> NoPagination,
               firstId |-> 0, stmts |-> <<>>, prevTable |-> <<>>,
               prevHeap |-> heap, undo |-> NoUndo]
    /\ calls = [c \in Callers |-> IdleCall]

\* a whole handler run by the single caller: its effects and its record
Return(op, ids, entities, pagination, name, out, undo) ==
    /\ table' = out.table
    /\ autoInc' = out.autoInc
    /\ heap' = out.heap
    /\ last' = [op |-> op, ids |-> ids, entities |-> entities,
                pagination |-> pagination, name |-> name, err |-> out.err,
                rows |-> out.rows, total |-> out.total, outPag |-> out.outPag,
                firstId |-> out.firstId, stmts |-> out.stmts,
                prevTable |-> table, prevHeap |-> heap, undo |-> undo]
    /\ UNCHANGED calls

\* the table before the insert that the delete-by-entity call follows, when
\* it directly follows a successful insert of the same entity instances
UndoOf(insertOp, entities) ==
    IF last.op = insertOp /\ last.err = NoError /\ last.entities = entities
       /\ entities # <<>>
    THEN [on |-> TRUE, table |-> last.prevTable]
    ELSE NoUndo

CallFindAll ==
    Return("FindAll", <<>>, <<>>, NoPagination, "", FindAll, NoUndo)

CallFindAllByID ==
    \E ids \in IdLists :
        Return("FindAllByID", ids, <<>>, NoPagination, "", FindAllByID(ids),
               NoUndo)

CallFindByID ==
    \E id \in 0..MaxId :
        Return("FindByID", <<id>>, <<>>, NoPagination, "", FindByID(id), NoUndo)

CallExistsByID ==
    \E id \in 0..MaxId :
        Return("ExistsByID", <<id>>, <<>>, NoPagination, "", ExistsByID(id),
               NoUndo)

CallSave ==
    \E e \in EntRefs :
        /\ autoInc <= MaxId
        /\ Return("Save", <<>>, <<e>>, NoPagination, "", Save(e), NoUndo)

CallSaveAll ==
    \E entities \in EntityLists :
        /\ autoInc + Len(entities) - 1 <= MaxId
        /\ Return("SaveAll", <<>>, entities, NoPagination, "",
                  SaveAll(entities), NoUndo)

CallDeleteByID ==
    \E id \in 0..MaxId :
        Return("DeleteByID", <<id>>, <<>>, NoPagination, "", DeleteByID(id),
               NoUndo)

CallDeleteByIDs ==
    \E ids \in IdLists :
        Return("DeleteByIDs", ids, <<>>, NoPagination, "", DeleteByIDs(ids),
               NoUndo)

CallDeleteAll ==
    Return("DeleteAll", <<>>, <<>>, NoPagination, "", DeleteAll, NoUndo)

CallDeleteEntities ==
    \E entities \in EntityLists :
        Return("DeleteEntities", <<>>, entities, NoPagination, "",
               DeleteEntities(entities), UndoOf("SaveAll", entities))

CallDeleteEntity ==
    \E e \in EntRefs :
        Return("DeleteEntity", <<>>, <<e>>, NoPagination, "",
               DeleteEntity(e), UndoOf("Save", <<e>>))

CallFindAllPaginated ==
    \E pagination \in Paginations :
        Return("FindAllPaginated", <<>>, <<>>, pagination, "",
               FindAllPaginated(pagination), NoUndo)

CallInsertRecordsToSampleEntity ==
    \E name \in Names :
        /\ autoInc <= MaxId
        /\ Return("InsertRecordsToSampleEntity", <<>>, <<>>, NoPagination,
                  name, InsertRecordsToSampleEntity(name), NoUndo)

Next ==
    \/ CallFindAll
    \/ CallFindAllByID
    \/ CallFindByID
    \/ CallExistsByID
    \/ CallSave
    \/ CallSaveAll
    \/ CallDeleteByID
    \/ CallDeleteByIDs
    \/ CallDeleteAll
    \/ CallDeleteEntities
    \/ CallDeleteEntity
    \/ CallFindAllPaginated
    \/ CallInsertRecordsToSampleEntity

Spec == Init /\ [][Next]_vars

\* The single caller restricted to one family of operations, together with
\* the operations that build the tables the family is exercised on: rows
\* inserted one at a time and deleted one at a time.
NextSave ==
    \/ CallSave
    \/ CallSaveAll
    \/ CallDeleteEntities
    \/ CallDeleteEntity
    \/ CallInsertRecordsToSampleEntity
    \/ CallDeleteByID

SpecSave == Init /\ [][NextSave]_vars

NextFind ==
    \/ CallFindAllByID
    \/ CallFindByID
    \/ CallExistsByID
    \/ CallInsertRecordsToSampleEntity
    \/ CallDeleteByID

SpecFind == Init /\ [][NextFind]_vars

NextDelete ==
    \/ CallDeleteByIDs
    \/ CallInsertRecordsToSampleEntity

SpecDelete == Init /\ [][NextDelete]_vars

NextPaginate ==
    \/ CallFindAllPaginated
    \/ CallFindAll
    \/ CallInsertRecordsToSampleEntity
    \/ CallDeleteByID
    \/ CallDeleteAll

SpecPaginate == Init /\ [][NextPaginate]_vars

\* ------------------------------------------------- concurrent callers
\* Several callers share the one connection handle.  A handler is split at
\* its round trips to the backend; each statement executes atomically.
InitConc ==
    /\ table = <<>>
    /\ autoInc = 1
    /\ heap = [e \in ConcRefs |-> NewSampleEntity(e)]
    /\ last = [op |-> "NewEntityRepository", ids |-> <<>>, entities |-> <<>>,
               pagination |-> NoPagination, name |-> "", err |-> NoError,
               rows |-> <<>>, total |-> 0, outPag |-> NoPagination,
               firstId |-> 0, stmts |-> <<>>, prevTable |-> <<>>,
               prevHeap |-> heap, undo |-> NoUndo]
    /\ calls = [c \in Callers |-> IdleCall]

\* SaveAll up to and including r.DB.Exec
SaveAllExec(c) ==
    \E entities \in SeqsUpTo(Owned(c), MaxLen) :
        LET result == DBExec(SaveAllStmt(entities))
        IN /\ calls[c].pc = "idle"
           /\ entities # <<>>
           /\ autoInc + Len(entities) - 1 <= MaxId
           /\ result.err = NoError
           /\ table' = result.table
           /\ autoInc' = result.autoInc
           /\ calls' = [d \in Callers |->
                 IF d = c
                 THEN [calls[c] EXCEPT
                         !.pc = "backfill", !.entities = entities,
                         !.result = [lastInsertId |-> result.lastInsertId,
                                     inserted |-> result.inserted],
                         !.saved = FALSE, !.raced = FALSE]
                 ELSE IF calls[d].pc = "backfill"
                 THEN [calls[d] EXCEPT !.raced = TRUE]
                 ELSE calls[d]]
           /\ UNCHANGED <<heap, last>>

\* SaveAll from result.LastInsertId() to its return
SaveAllBackfill(c) ==
    /\ calls[c].pc = "backfill"
    /\ heap' = SetAutoIncrementIDs(calls[c].entities, calls[c].result)
    /\ calls' = [calls EXCEPT ![c].pc = "idle", ![c].saved = TRUE]
    /\ UNCHANGED <<table, autoInc, last>>

\* DeleteAll by a concurrent caller: one statement
ConcDeleteAll(c) ==
    /\ calls[c].pc = "idle"
    /\ table # <<>>
    /\ DeleteAll.err = NoError
    /\ table' = DeleteAll.table
    /\ UNCHANGED <<autoInc, heap, last, calls>>

NextConc ==
    \E c \in Callers :
        \/ SaveAllExec(c)
        \/ SaveAllBackfill(c)
        \/ ConcDeleteAll(c)

SpecConc == InitConc /\ [][NextConc]_vars

\* FindAllPaginated up to and including the page query
PageQuery(c) ==
    \E pagination \in Paginations :
        LET page == DBSelect(PageStmt(pagination))
        IN /\ calls[c].pc = "idle"
           /\ page.err = NoError
           /\ calls' = [calls EXCEPT ![c] =
                 [IdleCall EXCEPT !.pc = "count", !.pagination = pagination,
                                  !.page = page.rows]]
           /\ UNCHANGED <<table, autoInc, heap, last>>

\* variant: the total taken from the page already fetched
TotalCountOfPage(c) == Len(calls[c].page)

\* the count query, answered from the table as it is when the query runs
TotalCount(c) == DBSelect(CountStmt).count

\* FindAllPaginated from the count query to its return
CountQuery(c) ==
    /\ calls[c].pc = "count"
    /\ DBSelect(CountStmt).err = NoError
    /\ calls' = [calls EXCEPT ![c] =
          [IdleCall EXCEPT
             !.pagination = calls[c].pagination, !.returned = TRUE,
             !.out = [Pagination |-> calls[c].pagination,
                      TotalCount |-> TotalCount(c),
                      Results |-> calls[c].page]]]
    /\ UNCHANGED <<table, autoInc, heap, last>>

\* a single-row insert by a concurrent caller: one statement
ConcInsert(c) ==
    \E name \in Names :
        LET out == InsertRecordsToSampleEntity(name)
        IN /\ calls[c].pc = "idle"
           /\ autoInc <= MaxId
           /\ out.err = NoError
           /\ table' = out.table
           /\ autoInc' = out.autoInc
           /\ UNCHANGED <<heap, last, calls>>

NextPage ==
    \/ \E c \in Readers : PageQuery(c) \/ CountQuery(c)
    \/ \E c \in Callers \ Readers : ConcInsert(c) \/ ConcDeleteAll(c)

SpecPage == InitConc /\ [][NextPage]_vars

\* ============================================================== properties
Inserted == last.op \in {"SaveAll", "Save"} /\ last.err = NoError
            /\ last.entities # <<>>

Distinct(seq) == \A i, j \in 1..Len(seq) : seq[i] = seq[j] => i = j

\* the last position of the list holding the same instance as position i
LastPosition(seq, i) ==
    CHOOSE j \in 1..Len(seq) :
        /\ seq[j] = seq[i]
        /\ \A k \in 1..Len(seq) : seq[k] = seq[i] => k <= j

Exists(tbl, id) == \E k \in 1..Len(tbl) : tbl[k].id = id

RowOf(tbl, id) == tbl[CHOOSE k \in 1..Len(tbl) : tbl[k].id = id]

\* sub is exactly the rows of tbl whose id is (keep) / is not (~keep) in S,
\* each once and in the order of tbl
IsSelection(sub, tbl, S, keep) ==
    LET P == {p \in 1..Len(tbl) : (tbl[p].id \in S) = keep}
        Kth(k) == CHOOSE p \in P : Cardinality({q \in P : q < p}) = k - 1
    IN /\ Len(sub) = Cardinality(P)
       /\ \A k \in 1..Len(sub) : sub[k] = tbl[Kth(k)]

\* C1 (as stated): after a successful SaveAll of a non-empty list, aliased
\* lists included, the entity at 0-based position i has key
\* firstAssignedID + i.
C1_PositionalKeys ==
    Inserted =>
        \A i \in 1..Len(last.entities) :
            heap[last.entities[i]].Id = last.firstId + (i - 1)

\* C1 (amended): after a successful SaveAll of a non-empty list, every
\* entity has key firstAssignedID + j, j the last 0-based position at which
\* that instance occurs; so for pairwise distinct instances the entity at
\* position i has key firstAssignedID + i, and firstAssignedID is the key of
\* the first row the statement inserted.
C1_BackfilledKeys ==
    Inserted =>
        /\ \A i \in 1..Len(last.entities) :
              heap[last.entities[i]].Id
                  = last.firstId + (LastPosition(last.entities, i) - 1)
        /\ Distinct(last.entities) =>
              \A i \in 1..Len(last.entities) :
                  heap[last.entities[i]].Id = last.firstId + (i - 1)
        /\ table[Len(last.prevTable) + 1].id = last.firstId

C1_Witness ==
    /\ Inserted
    /\ last.op = "SaveAll"
    /\ Len(last.entities) = 2
    /\ Distinct(last.entities)
    /\ last.firstId > 1
    /\ heap[last.entities[2]].Id = last.firstId + 1

\* C2: after a successful SaveAll, FindAll returns the rows present before
\* followed by one new row per inserted entity carrying that entity's
\* non-key fields, and FindByID of each back-filled id returns a row with
\* that key and the entity's original fields.
C2_RoundTrip ==
    Inserted =>
        LET n == Len(last.entities)
            m == Len(last.prevTable)
            all == FindAll
        IN /\ all.err = NoError
           /\ Len(all.rows) = m + n
           /\ SubSeq(all.rows, 1, m) = last.prevTable
           /\ \A i \in 1..n :
                 all.rows[m + i].name = last.prevHeap[last.entities[i]].Name
           /\ \A i \in 1..n :
                 LET id == heap[last.entities[i]].Id
                     found == FindByID(id)
                 IN /\ found.err = NoError
                    /\ Len(found.rows) = 1
                    /\ found.rows[1].id = id
                    /\ found.rows[1].name
                           = last.prevHeap[last.entities[i]].Name

C2_Witness ==
    /\ Inserted
    /\ Len(last.entities) = 2
    /\ last.prevTable # <<>>
    /\ last.prevHeap[last.entities[1]].Name
           # last.prevHeap[last.entities[2]].Name
    /\ Len(table) = Len(last.prevTable) + 2

\* C3: FindAllByID of a non-empty list returns exactly the rows whose key
\* is in the list, each once, in storage order.
C3_FindAllByID ==
    (last.op = "FindAllByID" /\ last.ids # <<>>) =>
        /\ last.err = NoError
        /\ IsSelection(last.rows, table, Range(last.ids), TRUE)
        /\ Len(last.rows)
              = Cardinality({id \in Range(last.ids) : Exists(table, id)})

C3_Witness ==
    /\ last.op = "FindAllByID"
    /\ Len(last.ids) = 2
    /\ Len(table) = 3
    /\ Len(last.rows) = 2
    /\ last.rows = <<table[1], table[3]>>
    /\ last.ids[1] > last.ids[2]

\* C4: FindByID and ExistsByID succeed exactly when a row with the key
\* exists (FindByID returning it), fail with "entity not found" exactly
\* when none exists, and leave the table as it was.
C4_FindAndExists ==
    (last.op \in {"FindByID", "ExistsByID"}) =>
        LET id == last.ids[1]
        IN /\ (last.err = NoError) <=> Exists(last.prevTable, id)
           /\ (last.err = NotFound) <=> ~Exists(last.prevTable, id)
           /\ (last.op = "FindByID" /\ last.err = NoError) =>
                 last.rows = <<RowOf(last.prevTable, id)>>
           /\ table = last.prevTable

C4_Witness ==
    /\ last.op = "FindByID"
    /\ last.err = NoError
    /\ Len(table) >= 2
    /\ last.rows = <<table[2]>>

\* C5: DeleteByIDs of a non-empty list succeeds and leaves exactly the
\* previous rows whose key is not in the list, unchanged and in order.
C5_DeleteByIDs ==
    (last.op = "DeleteByIDs" /\ last.ids # <<>>) =>
        /\ last.err = NoError
        /\ \A k \in 1..Len(table) : table[k].id \notin Range(last.ids)
        /\ IsSelection(table, last.prevTable, Range(last.ids), FALSE)

C5_Witness ==
    /\ last.op = "DeleteByIDs"
    /\ Len(last.ids) = 2
    /\ last.ids[1] # last.ids[2]
    /\ Len(last.prevTable) = 3
    /\ Len(table) = 1

\* C6: FindAllPaginated echoes the request, reports the table's row count,
\* and returns the rows at storage positions offset .. offset+limit-1 that
\* exist.
C6_FindAllPaginated ==
    (last.op = "FindAllPaginated") =>
        LET limit == last.pagination.Limit
            offset == last.pagination.Offset
            T == Len(table)
            n == Min(limit, Max(0, T - offset))
        IN /\ last.err = NoError
           /\ last.outPag = last.pagination
           /\ last.total = T
           /\ Len(last.rows) = n
           /\ \A k \in 1..n : last.rows[k] = table[offset + k]

C6_Witness ==
    /\ last.op = "FindAllPaginated"
    /\ last.pagination = [Limit |-> 1, Offset |-> 1]
    /\ Len(table) = 2
    /\ last.total = 2
    /\ last.rows = <<table[2]>>

\* C7 (as stated): DeleteEntities (DeleteEntity) directly after a successful
\* SaveAll (Save) of the same entity instances leaves the table as it was
\* before the insert.
C7_InsertThenDelete ==
    (last.op \in {"DeleteEntities", "DeleteEntity"} /\ last.undo.on) =>
        /\ last.err = NoError
        /\ table = last.undo.table

\* C7 (amended): the same, for lists of pairwise distinct entity instances.
C7_InsertThenDeleteDistinct ==
    (last.op \in {"DeleteEntities", "DeleteEntity"} /\ last.undo.on
     /\ Distinct(last.entities)) =>
        /\ last.err = NoError
        /\ table = last.undo.table

C7_Witness ==
    /\ last.op = "DeleteEntities"
    /\ last.undo.on
    /\ Len(last.entities) = 2
    /\ Distinct(last.entities)
    /\ last.undo.table # <<>>
    /\ table = last.undo.table

\* C8: FindAllByID, DeleteByIDs and DeleteEntities on an empty list succeed
\* as an empty result / no-op and issue no statement with an empty IN ().
C8_EmptyInput ==
    /\ (last.op = "FindAllByID" /\ last.ids = <<>>) =>
          (last.err = NoError /\ last.rows = <<>>)
    /\ (last.op = "DeleteByIDs" /\ last.ids = <<>>) =>
          (last.err = NoError /\ table = last.prevTable)
    /\ (last.op = "DeleteEntities" /\ last.entities = <<>>) =>
          (last.err = NoError /\ table = last.prevTable)
    /\ (last.op \in {"FindAllByID", "DeleteByIDs", "DeleteEntities"}) =>
          \A k \in 1..Len(last.stmts) : ~EmptyIn(last.stmts[k])

\* the page of tbl a pagination request selects
PageOf(tbl, pagination) ==
    [k \in 1..Min(pagination.Limit, Max(0, Len(tbl) - pagination.Offset))
        |-> tbl[pagination.Offset + k]]

\* C9: FindAllPaginated takes its page and its total in two separate steps,
\* each answered from the table as it is at that step: the page query
\* yields the requested page of the table at the first step, the count
\* query the row count of the table at the second, and the result pairs
\* the two.
C9_TwoQueries ==
    [][\A c \in Callers :
         /\ (calls[c].pc = "idle" /\ calls'[c].pc = "count") =>
               /\ calls'[c].page = PageOf(table, calls'[c].pagination)
               /\ ~calls'[c].returned
         /\ (calls[c].pc = "count" /\ calls'[c].pc = "idle") =>
               /\ calls'[c].returned
               /\ calls'[c].out.Pagination = calls[c].pagination
               /\ calls'[c].out.Results = calls[c].page
               /\ calls'[c].out.TotalCount = Len(table)]_vars

\* a returned result whose page is not empty although its total is 0
C9_Witness ==
    \E c \in Callers :
        /\ calls[c].returned
        /\ calls[c].out.Results # <<>>
        /\ calls[c].out.TotalCount = 0
        /\ ~(Len(calls[c].out.Results)
               <= Max(0, calls[c].out.TotalCount
                         - calls[c].out.Pagination.Offset))

\* C10: under every interleaving of concurrent SaveAll calls, each entity of
\* a finished call carries the key of a row its own statement inserted for
\* it, that row (while it exists) holds the entity's fields, and entities
\* of different calls never carry the same key.
C10_ConcurrentBackfill ==
    /\ \A c \in Callers :
          calls[c].saved =>
              \A i \in 1..Len(calls[c].entities) :
                  LET e == calls[c].entities[i]
                  IN /\ \E j \in 1..Len(calls[c].entities) :
                           /\ calls[c].entities[j] = e
                           /\ heap[e].Id = calls[c].result.inserted[j]
                     /\ Distinct(calls[c].entities) =>
                           heap[e].Id = calls[c].result.inserted[i]
                     /\ Exists(table, heap[e].Id) =>
                           RowOf(table, heap[e].Id).name = heap[e].Name
    /\ \A c, d \in Callers :
          (c # d /\ calls[c].saved /\ calls[d].saved) =>
              \A i \in 1..Len(calls[c].entities) :
                  \A j \in 1..Len(calls[d].entities) :
                      heap[calls[c].entities[i]].Id
                          # heap[calls[d].entities[j]].Id

\* a finished two-entity call that another caller's INSERT overtook between
\* its own INSERT and its back-fill
C10_Witness ==
    \E c \in Callers :
        /\ calls[c].saved
        /\ calls[c].raced
        /\ Len(calls[c].entities) = 2
        /\ Distinct(calls[c].entities)
        /\ heap[calls[c].entities[2]].Id = calls[c].result.inserted[2]

====
